---- MODULE Spec2Model ----
(***************************************************************************)
(* Exam generation (src/ai.ts: generateExam) and the exam attempt          *)
(* lifecycle, scoring and guidance (src/unnamed/part_001: createAttempt,   *)
(* submitAttempt, listAttempts) of the GATE study tracker.                 *)
(*                                                                         *)
(* JavaScript values are records [t, n, s, a]: t is the typeof tag, n the  *)
(* number in thousandths (fixed point, so 11.995 is 11995), s the string   *)
(* and a the array elements.  A missing property reads as Undef, as in JS. *)
(***************************************************************************)
EXTENDS Integers, Sequences, FiniteSets, TLC

VARIABLES env, args, pc, cand, calls, inflight, lastErr, failures, result, source,
          thrown, attempts, last, txs, patches

genVars ==
  <<env, args, pc, cand, calls, inflight, lastErr, failures, result, source,
    thrown>>

attemptVars == <<attempts, last, txs, patches>>

vars == <<genVars, attemptVars>>

-----------------------------------------------------------------------------
(* JavaScript values *)

Scale == 1000

Undef == [t |-> "undefined", n |-> 0, s |-> "", a |-> <<>>]

Null == [t |-> "null", n |-> 0, s |-> "", a |-> <<>>]

Dec(k) == [t |-> "number", n |-> k, s |-> "", a |-> <<>>]

Num(i) == Dec(i * Scale)

Str(x) == [t |-> "string", n |-> 0, s |-> x, a |-> <<>>]

\* the number NaN
NaNValue == [t |-> "number", n |-> 0, s |-> "NaN", a |-> <<>>]

IsNaNValue(v) == v.t = "number" /\ v.s = "NaN"

Arr(xs) == [t |-> "array", n |-> 0, s |-> "", a |-> xs]

Min(x, y) == IF x < y THEN x ELSE y

Max(x, y) == IF x > y THEN x ELSE y

Abs(x) == IF x < 0 THEN 0 - x ELSE x

\* v ?? d
Coalesce(v, d) == IF v.t \in {"undefined", "null"} THEN d ELSE v

\* the truthiness of a value (the condition of ?: and if)
Truthy(v) ==
  CASE v.t = "undefined" -> FALSE
    [] v.t = "null" -> FALSE
    [] v.t = "string" -> v.s # ""
    [] v.t = "number" -> v.n # 0
    [] OTHER -> TRUE

IsSpace(c) == c \in {" ", "\t", "\n"}

RECURSIVE TrimStart(_)
TrimStart(x) ==
  IF x = "" THEN ""
  ELSE IF IsSpace(Head(x)) THEN TrimStart(Tail(x)) ELSE x

RECURSIVE TrimEnd(_)
TrimEnd(x) ==
  IF x = "" THEN ""
  ELSE IF IsSpace(SubSeq(x, Len(x), Len(x)))
       THEN TrimEnd(SubSeq(x, 1, Len(x) - 1)) ELSE x

\* String.prototype.trim
Trim(x) == TrimEnd(TrimStart(x))

Digits == <<"0", "1", "2", "3", "4", "5", "6", "7", "8", "9">>

RECURSIVE NatToString(_)
NatToString(k) ==
  IF k < 10 THEN Digits[k + 1]
  ELSE NatToString(k \div 10) \o Digits[(k % 10) + 1]

\* the fraction digits of f thousandths, trailing zeros dropped
FracToString(f) ==
  IF f % 100 = 0 THEN Digits[(f \div 100) + 1]
  ELSE IF f % 10 = 0
       THEN Digits[(f \div 100) + 1] \o Digits[((f \div 10) % 10) + 1]
       ELSE Digits[(f \div 100) + 1] \o Digits[((f \div 10) % 10) + 1]
            \o Digits[(f % 10) + 1]

\* String(x) of a number x given in thousandths
NumberToString(k) ==
  LET m == Abs(k)
      body == IF m % Scale = 0 THEN NatToString(m \div Scale)
              ELSE NatToString(m \div Scale) \o "." \o FracToString(m % Scale)
  IN IF k < 0 THEN "-" \o body ELSE body

RECURSIVE JoinComma(_)
\* String(v): Array.prototype.join renders null and undefined as ""
ToStr(v) ==
  CASE v.t = "string" -> v.s
    [] v.t = "number" -> IF IsNaNValue(v) THEN "NaN" ELSE NumberToString(v.n)
    [] v.t = "undefined" -> "undefined"
    [] v.t = "null" -> "null"
    [] v.t = "array" -> JoinComma(v.a)
    [] OTHER -> "[object Object]"

JoinComma(xs) ==
  IF xs = <<>> THEN ""
  ELSE LET h == IF Head(xs).t \in {"undefined", "null"} THEN ""
                ELSE IF Head(xs).t = "string" THEN Head(xs).s
                ELSE IF Head(xs).t = "number" THEN NumberToString(Head(xs).n)
                ELSE "[object Object]"
       IN IF Len(xs) = 1 THEN h ELSE h \o "," \o JoinComma(Tail(xs))

-----------------------------------------------------------------------------
(* generateExam: inputs *)

\* the longest array a provider answers with
MaxRawLen == 7

None == <<>>

Some(x) == <<x>>

\* process.env: <<ANTHROPIC_API_KEY, VITE_ANTHROPIC_API_KEY>>
AnthropicEnvs ==
  { <<Undef, Undef>>, <<Str("  "), Str("sk-a")>>, <<Undef, Str(" sk-a ")>>,
    <<Str(" "), Str("")>> }

\* process.env: <<OPENROUTER_API_KEY, VITE_OPENROUTER_API_KEY, OPENAI_API_KEY>>
OpenRouterEnvs ==
  { <<Undef, Undef, Undef>>, <<Str(""), Undef, Str("sk-o")>>,
    <<Undef, Undef, Str("sk-o\n")>>, <<Undef, Str(" \n"), Str("")>> }

\* args.numQuestions
CountInputs == { None, Some(0 - 3), Some(4), Some(6), Some(66) }

\* args.includeExplanations
ExplainInputs == { None, Some(FALSE) }

\* args.subjectMix
SubjectInputs == { None, Some(<<>>), Some(<<"graph_theory", "os">>) }

ArgInputs ==
  [ numQuestions : CountInputs, includeExplanations : ExplainInputs,
    subjectMix : SubjectInputs ]

\* one element of the array a provider answered with: kind is what the JSON
\* value is, the other fields are its properties (Undef when it has none)
Elem(kind, type, question, options, answer, marks, topic, explanation, id) ==
  [ kind |-> kind, type |-> type, question |-> question, options |-> options,
    answer |-> answer, marks |-> marks, topic |-> topic,
    explanation |-> explanation, id |-> id ]

NonObject(kind) ==
  Elem(kind, Undef, Undef, Undef, Undef, Undef, Undef, Undef, Undef)

FourOptions == Arr(<<Str("w"), Str("x"), Str("y"), Str("z")>>)

RawElems ==
  << Elem("object", Str("mcq"), Str("Q1"), FourOptions, Num(2), Num(2),
          Str("os"), Str("because"), Num(7)),
     Elem("object", Str("mcq"), Str("Q2"), FourOptions, Dec(1500), Num(1),
          Str("os"), Undef, Num(7)),
     Elem("object", Str("mcq"), Undef, Arr(<<Str("w"), Str("x"), Str("y")>>),
          Num(5), Num(3), Undef, Str(""), Undef),
     Elem("object", Str("MCQ"), Str("Q4"), Undef, Str("2"), Str("2"),
          Null, Num(1), Str("a")),
     Elem("object", Str("nat"), Str("Q5"), FourOptions, Str("3.5"), Num(2),
          Str("dbms"), Str("why"), Num(1)),
     Elem("object", Str("nat"), Num(12), Undef, Null, Undef,
          Undef, Undef, Dec(0 - 500)),
     NonObject("number"),
     NonObject("null") >>

Uniform(e, len) == [i \in 1..len |-> e]

\* every element is RawElems[1] but the one at position k
OneOdd(e, k, len) == [i \in 1..len |-> IF i = k THEN e ELSE RawElems[1]]

Cycled(len) == [i \in 1..len |-> RawElems[((i - 1) % Len(RawElems)) + 1]]

RawArrays ==
  { Uniform(RawElems[j], len) : j \in 1..Len(RawElems), len \in 0..MaxRawLen }
  \cup { OneOdd(RawElems[Len(RawElems)], len, len) : len \in 1..MaxRawLen }
  \cup { Cycled(len) : len \in 1..MaxRawLen }

\* how one provider call ends: fetch rejects, a non-2xx status, a body that
\* is not JSON, a text without a JSON array, or a text holding the array
FailKinds == { "transport", "http", "badjson", "noarray" }

Responses ==
  { [kind |-> k, parsed |-> <<>>] : k \in FailKinds }
  \cup { [kind |-> "array", parsed |-> r] : r \in RawArrays }

-----------------------------------------------------------------------------
(* generateExam: the handler's constants *)

rawOpenRouter ==
  Coalesce(env.openrouter[1],
           Coalesce(env.openrouter[2], Coalesce(env.openrouter[3], Str(""))))

rawAnthropic == Coalesce(env.anthropic[1], Coalesce(env.anthropic[2], Str("")))

openrouterKey == IF rawOpenRouter.t = "string" THEN Trim(rawOpenRouter.s) ELSE ""

\* anthropicKey taken from the environment without trim()
anthropicKey_untrimmed == IF rawAnthropic.t = "string" THEN rawAnthropic.s ELSE ""

anthropicKey == IF rawAnthropic.t = "string" THEN Trim(rawAnthropic.s) ELSE ""

MinQuestions == 5

MaxQuestions == 65

DefaultQuestions == 10

requested == IF args.numQuestions = None THEN DefaultQuestions ELSE args.numQuestions[1]

numQuestions == Min(Max(requested, MinQuestions), MaxQuestions)

includeExplanations ==
  IF args.includeExplanations = None THEN TRUE ELSE args.includeExplanations[1]

DefaultTopics ==
  << "programming_and_dsa", "database_management", "operating_systems",
     "computer_networks", "computer_organization", "theory_of_computation",
     "compiler_design", "discrete_mathematics", "linear_algebra",
     "probability_statistics", "general_aptitude" >>

topics ==
  IF args.subjectMix # None /\ Len(args.subjectMix[1]) > 0
  THEN args.subjectMix[1] ELSE DefaultTopics

models ==
  << "anthropic/claude-3-haiku", "mistralai/mixtral-8x7b-instruct",
     "openai/gpt-4o-mini" >>

-----------------------------------------------------------------------------
(* Response normalisation: parsed.slice(0, numQuestions).map(...) *)

Question(id, type, question, options, answer, marks, topic, explanation) ==
  [ id |-> id, type |-> type, question |-> question, options |-> options,
    answer |-> answer, marks |-> marks, topic |-> topic,
    explanation |-> explanation ]

PlaceholderOptions == Arr(<<Str("A"), Str("B"), Str("C"), Str("D")>>)

\* typeof q.answer === "number" && q.answer >= 0 && q.answer <= 3 ? q.answer : 0
McqAnswer(answer) ==
  IF answer.t = "number" /\ answer.n >= 0 /\ answer.n <= 3 * Scale
  THEN answer ELSE Num(0)

\* Array.isArray(q.options) && q.options.length === 4 ? q.options : [A, B, C, D]
McqOptions(options) ==
  IF options.t = "array" /\ Len(options.a) = 4 THEN options
  ELSE PlaceholderOptions

\* typeof q.answer === "number" || typeof q.answer === "string" ? q.answer : "0"
NatAnswer(answer) ==
  IF answer.t = "number" \/ answer.t = "string" THEN answer ELSE Str("0")

\* ...(q.explanation ? { explanation: String(q.explanation) } : {})
KeptExplanation(explanation) ==
  IF Truthy(explanation) THEN Str(ToStr(explanation)) ELSE Undef

Marks_coerced(marks) ==
  IF marks = Num(2) \/ marks = Str("2") THEN 2 ELSE 1

\* q.marks === 2 ? 2 : 1
Marks(marks) == IF marks = Num(2) THEN 2 ELSE 1

\* the map callback, for an element q that is not null, at index idx
NormalizeOne(q, idx) ==
  LET type == IF q.type = Str("mcq") THEN "mcq"
              ELSE IF q.type = Str("nat") THEN "nat" ELSE "mcq"
      prompt == Str(ToStr(Coalesce(q.question, Str("Untitled"))))
      topic == Str(ToStr(Coalesce(q.topic,
                                  Str(topics[(idx % Len(topics)) + 1]))))
  IN IF type = "mcq"
     THEN Question(idx + 1, type, prompt, McqOptions(q.options),
                   McqAnswer(q.answer), Marks(q.marks), topic,
                   KeptExplanation(q.explanation))
     ELSE Question(idx + 1, type, prompt, Undef, NatAnswer(q.answer),
                   Marks(q.marks), topic, KeptExplanation(q.explanation))

Sliced(parsed) == SubSeq(parsed, 1, Min(Len(parsed), numQuestions))

\* q.type on a null element throws a TypeError
NormalizeThrows(parsed) ==
  \E i \in 1..Len(Sliced(parsed)) : Sliced(parsed)[i].kind = "null"

Normalize(parsed) ==
  [i \in 1..Len(Sliced(parsed)) |-> NormalizeOne(Sliced(parsed)[i], i - 1)]

\* what a provider call gives generateExam: the questions, or the error thrown
Returned(qs) == [ok |-> TRUE, questions |-> qs, err |-> "none"]

Threw(kind) == [ok |-> FALSE, questions |-> <<>>, err |-> kind]

tryOnceOpenRouter(model, resp) ==
  IF resp.kind # "array" THEN Threw(resp.kind)
  ELSE IF NormalizeThrows(resp.parsed) THEN Threw("typeerror")
  ELSE Returned(Normalize(resp.parsed))

tryAnthropic(resp) ==
  IF resp.kind # "array" THEN Threw(resp.kind)
  ELSE IF NormalizeThrows(resp.parsed) THEN Threw("typeerror")
  ELSE Returned(Normalize(resp.parsed))

-----------------------------------------------------------------------------
(* Local generator *)

baseMCQs ==
  << [q |-> "Which data structure is most suitable for implementing a LRU cache?",
      options |-> <<"Queue", "Stack", "Hash map + Doubly linked list", "Binary heap">>,
      ans |-> 2, topic |-> "programming_and_dsa"],
     [q |-> "Which of the following is a lossless-join, dependency preserving normal form?",
      options |-> <<"1NF", "2NF", "3NF", "BCNF (not always dependency preserving)">>,
      ans |-> 2, topic |-> "database_management"],
     [q |-> "Which scheduling algorithm can lead to starvation without aging?",
      options |-> <<"Round Robin", "FCFS", "SJF", "Priority (preemptive)">>,
      ans |-> 3, topic |-> "operating_systems"],
     [q |-> "In networking, which layer is responsible for end-to-end reliable delivery?",
      options |-> <<"Application", "Transport", "Network", "Link">>,
      ans |-> 1, topic |-> "computer_networks"],
     [q |-> "Which of the following is NOT typically part of a CPU pipeline stage?",
      options |-> <<"Fetch", "Decode", "Execute", "Fragment">>,
      ans |-> 3, topic |-> "computer_organization"],
     [q |-> "Which language class is recognized by a deterministic finite automaton (DFA)?",
      options |-> <<"Context-sensitive", "Context-free", "Regular", "Recursively enumerable">>,
      ans |-> 2, topic |-> "theory_of_computation"],
     [q |-> "Which phase of a compiler performs lexical analysis?",
      options |-> <<"Frontend: Lexer", "Frontend: Parser", "Backend: Code generation", "Optimizer">>,
      ans |-> 0, topic |-> "compiler_design"],
     [q |-> "Which statement is TRUE about a simple undirected graph?",
      options |-> <<"Self-loops are allowed", "Multiple edges are allowed",
                    "Degree sum equals twice the number of edges",
                    "All nodes have the same degree">>,
      ans |-> 2, topic |-> "discrete_mathematics"] >>

baseNATs ==
  << [q |-> "Compute the determinant of [[1,2],[3,4]].",
      ans |-> Num(0 - 2), topic |-> "linear_algebra"],
     [q |-> "If X~Bernoulli(p) with p=0.3, what is Var(X)? Enter as decimal.",
      ans |-> Dec(210), topic |-> "probability_statistics"],
     [q |-> "Find the derivative of f(x)=3x^2 at x=2.",
      ans |-> Num(12), topic |-> "programming_and_dsa"] >>

McqExplanation ==
  "Reason about definitions and standard properties; select the logically valid option."

NatExplanation ==
  "Apply standard formula or computation to obtain the numeric result."

\* (i / 2) % len | 0, computed in thousandths
PickIndex(i, len) == (((i * Scale) \div 2) % (len * Scale)) \div Scale

StrArr(xs) == Arr([k \in 1..Len(xs) |-> Str(xs[k])])

\* the question pushed by the loop body for index i
LocalQuestion(i, topicsList, withExplanations) ==
  LET isMcq == i % 2 = 0
      marks == IF i % 3 = 0 THEN 2 ELSE 1
      topic == topicsList[(i % Len(topicsList)) + 1]
  IN IF isMcq
     THEN LET pick == baseMCQs[PickIndex(i, Len(baseMCQs)) + 1]
          IN Question(i + 1, "mcq", Str(pick.q), StrArr(pick.options),
                      Num(pick.ans), marks,
                      Str(IF pick.topic # "" THEN pick.topic ELSE topic),
                      IF withExplanations THEN Str(McqExplanation) ELSE Undef)
     ELSE LET pick == baseNATs[PickIndex(i, Len(baseNATs)) + 1]
          IN Question(i + 1, "nat", Str(pick.q), Undef, pick.ans, marks,
                      Str(IF pick.topic # "" THEN pick.topic ELSE topic),
                      IF withExplanations THEN Str(NatExplanation) ELSE Undef)

buildLocalQuestions(n, topicsList, withExplanations) ==
  LET total == Max(MinQuestions, Min(MaxQuestions, n))
  IN [k \in 1..total |-> LocalQuestion(k - 1, topicsList, withExplanations)]

-----------------------------------------------------------------------------
(* generateExam: provider selection *)

\* a call site of the handler: the try block it is in, and the model index
\* of the loop (0 outside the loops)
Site(site, idx) == [site |-> site, idx |-> idx]

NoSite == Site("none", 0)

\* the provider candidate a call site calls
Candidate(c) ==
  IF c.site \in {"anthropicFirst", "anthropicAfterLoop"} THEN "anthropic"
  ELSE IF c.site \in {"finalRetry", "lastAttempt"} THEN models[1]
  ELSE models[c.idx]

Call(c) == [do |-> "call", site |-> c]

Local == [do |-> "local", site |-> NoSite]

Rethrow == [do |-> "throw", site |-> NoSite]

\* the first thing the handler does after reading its arguments
FirstStep ==
  IF anthropicKey # "" THEN Call(Site("anthropicFirst", 0))
  ELSE IF openrouterKey # "" THEN Call(Site("loopSecond", 1))
  ELSE Local

\* OnFailure with the two last OpenRouter attempts left outside any try
OnFailure_uncaughtRetry(c) ==
  CASE c.site = "anthropicFirst" ->
         IF openrouterKey # "" THEN Call(Site("loopFirst", 1)) ELSE Local
    [] c.site = "loopFirst" ->
         IF c.idx < Len(models) THEN Call(Site("loopFirst", c.idx + 1))
         ELSE Call(Site("finalRetry", 0))
    [] c.site = "loopSecond" ->
         IF c.idx < Len(models) THEN Call(Site("loopSecond", c.idx + 1))
         ELSE Call(Site("lastAttempt", 0))
    [] OTHER -> Rethrow

\* OnFailure going to the local generator as soon as Anthropic fails
OnFailure_skipOpenRouter(c) ==
  CASE c.site = "anthropicFirst" -> Local
    [] c.site = "loopSecond" ->
         IF c.idx < Len(models) THEN Call(Site("loopSecond", c.idx + 1))
         ELSE Call(Site("lastAttempt", 0))
    [] OTHER -> Local

\* OnFailure calling Anthropic a second time before going on
OnFailure_retryAnthropic(c) ==
  CASE c.site = "anthropicFirst" -> Call(Site("anthropicAfterLoop", 0))
    [] c.site = "loopSecond" ->
         IF c.idx < Len(models) THEN Call(Site("loopSecond", c.idx + 1))
         ELSE Call(Site("lastAttempt", 0))
    [] OTHER -> Local

\* OnFailure going through the OpenRouter models a second time when the
\* final retry fails
OnFailure_secondPass(c) ==
  CASE c.site = "anthropicFirst" ->
         IF openrouterKey # "" THEN Call(Site("loopFirst", 1)) ELSE Local
    [] c.site = "loopFirst" ->
         IF c.idx < Len(models) THEN Call(Site("loopFirst", c.idx + 1))
         ELSE Call(Site("finalRetry", 0))
    [] c.site = "finalRetry" -> Call(Site("loopSecond", 1))
    [] c.site = "loopSecond" ->
         IF c.idx < Len(models) THEN Call(Site("loopSecond", c.idx + 1))
         ELSE Local
    [] c.site = "lastAttempt" -> Local
    [] OTHER -> Rethrow

\* what the handler does when the call at site c throws: the catch block
\* that receives the error and the statement it runs next
OnFailure(c) ==
  CASE c.site = "anthropicFirst" ->
         IF openrouterKey # "" THEN Call(Site("loopFirst", 1)) ELSE Local
    [] c.site = "loopFirst" ->
         IF c.idx < Len(models) THEN Call(Site("loopFirst", c.idx + 1))
         ELSE Call(Site("finalRetry", 0))
    [] c.site = "finalRetry" -> Local
    [] c.site = "loopSecond" ->
         IF c.idx < Len(models) THEN Call(Site("loopSecond", c.idx + 1))
         ELSE IF anthropicKey # "" THEN Call(Site("anthropicAfterLoop", 0))
         ELSE Call(Site("lastAttempt", 0))
    [] c.site = "anthropicAfterLoop" -> Local
    [] c.site = "lastAttempt" -> Local
    [] OTHER -> Rethrow

\* the call at site c, answered by resp
Try(c, resp) ==
  IF Candidate(c) = "anthropic" THEN tryAnthropic(resp)
  ELSE tryOnceOpenRouter(Candidate(c), resp)

GenInit ==
  /\ env \in [anthropic : AnthropicEnvs, openrouter : OpenRouterEnvs]
  /\ args \in ArgInputs
  /\ pc = "start"
  /\ cand = NoSite
  /\ calls = <<>>
  /\ inflight = 0
  /\ lastErr = "none"
  /\ failures = 0
  /\ result = <<>>
  /\ source = "none"
  /\ thrown = FALSE

\* the handler returns qs, produced by src
Return(qs, src) ==
  /\ pc' = "done"
  /\ cand' = NoSite
  /\ inflight' = 0
  /\ lastErr' = "none"
  /\ result' = qs
  /\ source' = src
  /\ thrown' = FALSE
  /\ UNCHANGED <<env, args, calls>>

\* the error reaches the caller of generateExam
Throw(err) ==
  /\ pc' = "done"
  /\ cand' = NoSite
  /\ inflight' = 0
  /\ lastErr' = err
  /\ thrown' = TRUE
  /\ UNCHANGED <<env, args, calls, result, source>>

\* Do issuing the next request while the earlier one is still outstanding
Do_noAwait(step, pending, err) ==
  CASE step.do = "call" ->
         /\ inflight' = inflight + 1
         /\ pc' = "await"
         /\ cand' = step.site
         /\ calls' = Append(calls, Candidate(step.site))
         /\ lastErr' = err
         /\ UNCHANGED <<env, args, result, source, thrown>>
    [] step.do = "local" ->
         Return(buildLocalQuestions(numQuestions, topics, includeExplanations),
                "local")
    [] OTHER -> Throw(err)

\* the handler goes on with step: it awaits a call, returns the local
\* questions or lets the error through; pending requests are still unresolved
Do(step, pending, err) ==
  CASE step.do = "call" ->
         /\ inflight' = pending + 1
         /\ pc' = "await"
         /\ cand' = step.site
         /\ calls' = Append(calls, Candidate(step.site))
         /\ lastErr' = err
         /\ UNCHANGED <<env, args, result, source, thrown>>
    [] step.do = "local" ->
         Return(buildLocalQuestions(numQuestions, topics, includeExplanations),
                "local")
    [] OTHER -> Throw(err)

\* the handler runs up to its first await or return
Start ==
  /\ pc = "start"
  /\ Do(FirstStep, inflight, "none")
  /\ UNCHANGED failures
  /\ UNCHANGED attemptVars

\* the awaited call returns questions and the handler returns them
ProviderReturns ==
  /\ pc = "await"
  /\ \E resp \in Responses :
       /\ Try(cand, resp).ok
       /\ Return(Try(cand, resp).questions, Candidate(cand))
       /\ UNCHANGED failures
  /\ UNCHANGED attemptVars

\* the awaited call throws and the catch block calls the next candidate
ProviderFailsNext ==
  /\ pc = "await"
  /\ OnFailure(cand).do = "call"
  /\ \E resp \in Responses :
       /\ ~Try(cand, resp).ok
       /\ Do(OnFailure(cand), inflight - 1, Try(cand, resp).err)
       /\ failures' = failures + 1
  /\ UNCHANGED attemptVars

\* the awaited call throws and no call is left
ProviderFailsLast ==
  /\ pc = "await"
  /\ OnFailure(cand).do # "call"
  /\ \E resp \in Responses :
       /\ ~Try(cand, resp).ok
       /\ Do(OnFailure(cand), inflight - 1, Try(cand, resp).err)
       /\ failures' = failures + 1
  /\ UNCHANGED attemptVars

GenNext == Start \/ ProviderReturns \/ ProviderFailsNext \/ ProviderFailsLast

-----------------------------------------------------------------------------
(* Scoring: Number(), the grading loop and the guidance of submitAttempt *)

IsDigit(c) == \E k \in 1..10 : Digits[k] = c

DigitVal(c) == (CHOOSE k \in 1..10 : Digits[k] = c) - 1

RECURSIVE AllDigits(_)
AllDigits(x) == x = "" \/ (IsDigit(Head(x)) /\ AllDigits(Tail(x)))

RECURSIVE DigitsValue(_, _)
DigitsValue(x, acc) ==
  IF x = "" THEN acc ELSE DigitsValue(Tail(x), (acc * 10) + DigitVal(Head(x)))

\* the position of the first "." of x, 0 when it has none
DotAt(x) ==
  IF \E i \in 1..Len(x) : SubSeq(x, i, i) = "."
  THEN CHOOSE i \in 1..Len(x) :
         /\ SubSeq(x, i, i) = "."
         /\ \A j \in 1..(i - 1) : SubSeq(x, j, j) # "."
  ELSE 0

\* the fraction digits as thousandths (digits after the third are dropped)
FracValue(x) == DigitsValue(SubSeq(x \o "000", 1, 3), 0)

NaN == [nan |-> TRUE, n |-> 0]

Finite(k) == [nan |-> FALSE, n |-> k]

\* an unsigned decimal literal: digits, digits.digits, digits. or .digits
UnsignedToNumber(x) ==
  LET d == DotAt(x)
      ip == IF d = 0 THEN x ELSE SubSeq(x, 1, d - 1)
      fp == IF d = 0 THEN "" ELSE SubSeq(x, d + 1, Len(x))
  IN IF AllDigits(ip) /\ AllDigits(fp) /\ (ip # "" \/ fp # "")
     THEN Finite((DigitsValue(ip, 0) * Scale) + FracValue(fp))
     ELSE NaN

\* Number(x) of a string x: white space is trimmed, the empty string is 0
\* (exponents, hexadecimal and Infinity are not among the modelled inputs)
StringToNumber(x) ==
  LET t == Trim(x)
  IN IF t = "" THEN Finite(0)
     ELSE IF Head(t) = "-"
          THEN LET u == UnsignedToNumber(Tail(t))
               IN IF u.nan THEN NaN ELSE Finite(0 - u.n)
          ELSE IF Head(t) = "+" THEN UnsignedToNumber(Tail(t))
          ELSE UnsignedToNumber(t)

\* Number(v)
ToNumber(v) ==
  CASE v.t = "number" -> IF IsNaNValue(v) THEN NaN ELSE Finite(v.n)
    [] v.t = "string" -> StringToNumber(v.s)
    [] v.t = "null" -> Finite(0)
    [] OTHER -> NaN

\* Math.floor of a number in thousandths, as an integer
Floor(k) == IF k >= 0 THEN k \div Scale ELSE 0 - (((0 - k) + (Scale - 1)) \div Scale)

\* the tolerance 0.01 of the numeric comparison, in thousandths
Tolerance == 10

\* args.answers[key]: answers is a sequence of <<key, value>> entries
RECURSIVE Lookup(_, _)
Lookup(answers, key) ==
  IF answers = <<>> THEN Undef
  ELSE IF Head(answers)[1] = key THEN Head(answers)[2]
  ELSE Lookup(Tail(answers), key)

DefaultTopic == "general_aptitude"

TopicOf(q) == ToStr(Coalesce(q.topic, Str(DefaultTopic)))

\* yours rendered without the test for a missing answer
Rendered_unchecked(userAns) == ToStr(userAns)

Rendered(userAns) == IF userAns = Undef THEN "blank" ELSE ToStr(userAns)

\* F(v), with v evaluated once and then shared by every use in F
Let(v, F(_)) == CHOOSE r \in {F(x) : x \in {v}} : TRUE

\* the body of the grading loop for question q: its topic, whether it is
\* correct, and the mistake entry pushed when it is not
GradeOne(q, answers) ==
  LET userAns == Lookup(answers, NumberToString(q.id * Scale))
  IN IF q.type = "mcq"
     THEN LET correctIndex == IF q.answer.t = "number" THEN q.answer
                              ELSE Num(0 - 1)
          IN [ topic |-> TopicOf(q),
               correct |-> /\ userAns.t = "number"
                           /\ ~IsNaNValue(userAns)
                           /\ ~IsNaNValue(correctIndex)
                           /\ userAns.n = correctIndex.n,
               mistake |-> [ id |-> q.id, topic |-> TopicOf(q),
                             correct |-> ToStr(correctIndex),
                             yours |-> Rendered(userAns) ] ]
     ELSE LET correctNat == ToNumber(q.answer)
              userVal == ToNumber(userAns)
          IN [ topic |-> TopicOf(q),
               correct |-> /\ ~correctNat.nan
                           /\ ~userVal.nan
                           /\ Abs(userVal.n - correctNat.n) < Tolerance,
               mistake |-> [ id |-> q.id, topic |-> TopicOf(q),
                             correct |-> ToStr(Coalesce(q.answer, Str(""))),
                             yours |-> Rendered(userAns) ] ]

\* the grading loop: one record per question, in the questions' order
Graded(questions, answers) ==
  [k \in 1..Len(questions) |-> GradeOne(questions[k], answers)]

\* score after the loop
ScoreOf(g) == Cardinality({k \in 1..Len(g) : g[k].correct})

MistakesOf_reversed(g) ==
  LET IsWrong(k) == ~g[k].correct
  IN Let(SelectSeq([k \in 1..Len(g) |-> k], IsWrong),
         LAMBDA wrong :
           [p \in 1..Len(wrong) |-> g[wrong[Len(wrong) + 1 - p]].mistake])

\* mistakes after the loop
MistakesOf(g) ==
  LET IsWrong(k) == ~g[k].correct
  IN Let(SelectSeq([k \in 1..Len(g) |-> k], IsWrong),
         LAMBDA wrong : [p \in 1..Len(wrong) |-> g[wrong[p]].mistake])

\* the keys of topicStats in the order the loop inserted them: the topics
\* of the questions, each at its first occurrence
InsertedTopics(g) ==
  LET IsFirst(k) == \A j \in 1..(k - 1) : g[j].topic # g[k].topic
  IN Let(SelectSeq([k \in 1..Len(g) |-> k], IsFirst),
         LAMBDA firsts : [p \in 1..Len(firsts) |-> g[firsts[p]].topic])

\* a key that is a canonical array index: Object.entries lists these first,
\* in ascending numeric order, before the other keys in insertion order
IsIndexKey(x) == x # "" /\ AllDigits(x) /\ (x = "0" \/ Head(x) # "0")

\* index keys in ascending numeric order
Ascending(keys) ==
  [p \in 1..Cardinality(keys) |->
     CHOOSE x \in keys :
       Cardinality({y \in keys : DigitsValue(y, 0) < DigitsValue(x, 0)}) = p - 1]

\* Object.entries(topicStats), keys only, for the inserted keys ins
EntryOrder(ins) ==
  LET NotIndex(x) == ~IsIndexKey(x)
  IN Ascending({ins[k] : k \in {j \in 1..Len(ins) : IsIndexKey(ins[j])}})
     \o SelectSeq(ins, NotIndex)

\* topicStats[t].wrong after the loop
Wrong(g, t) == Cardinality({k \in 1..Len(g) : g[k].topic = t /\ ~g[k].correct})

\* Array.prototype.sort((a, b) => b.wrong - a.wrong): stable, descending
SortDesc(xs, w) ==
  LET Rank(i) ==
        Cardinality({j \in 1..Len(xs) :
                       \/ w[xs[j]] > w[xs[i]]
                       \/ (w[xs[j]] = w[xs[i]] /\ j < i)}) + 1
  IN [p \in 1..Len(xs) |-> xs[CHOOSE i \in 1..Len(xs) : Rank(i) = p]]

MaxWeakTopics == 4

\* .filter(wrong > 0).sort(...).map(topic).slice(0, 4)
Ranked(entries, w) ==
  LET Missed(t) == w[t] > 0
  IN Let(SelectSeq(entries, Missed),
         LAMBDA missed :
           Let(SortDesc(missed, w),
               LAMBDA sorted : SubSeq(sorted, 1, Min(Len(sorted), MaxWeakTopics))))

\* weakTopics, from the graded questions
WeakTopicsOf(g) ==
  Let(InsertedTopics(g),
      LAMBDA ins :
        Let(EntryOrder(ins),
            LAMBDA entries :
              Let([t \in {entries[k] : k \in 1..Len(entries)} |-> Wrong(g, t)],
                  LAMBDA w : Ranked(entries, w))))

\* t.replace(/_/g, " ")
RECURSIVE Spaced(_)
Spaced(x) ==
  IF x = "" THEN ""
  ELSE (IF Head(x) = "_" THEN " " ELSE Head(x)) \o Spaced(Tail(x))

RECURSIVE JoinSpaced(_)
JoinSpaced(ts) ==
  IF ts = <<>> THEN ""
  ELSE IF Len(ts) = 1 THEN Spaced(ts[1])
  ELSE Spaced(ts[1]) \o ", " \o JoinSpaced(Tail(ts))

GenericSuggestions ==
  << "Review basics first: definitions, standard formulas, and canonical properties.",
     "Practice 10 targeted problems per weak topic and redo similar questions.",
     "Reattempt a shorter mock to validate improvements." >>

\* Suggestions pushing the topic line whether or not there is a weak topic
Suggestions_alwaysFocus(weakTopics) ==
  <<"Focus next: " \o JoinSpaced(weakTopics)>> \o GenericSuggestions

Suggestions(weakTopics) ==
  (IF Len(weakTopics) > 0
   THEN <<"Focus next: " \o JoinSpaced(weakTopics)>> ELSE <<>>)
  \o GenericSuggestions

\* what submitAttempt computes from the questions and the answers
Grading(questions, answers) ==
  Let(Graded(questions, answers),
      LAMBDA g :
        Let(WeakTopicsOf(g),
            LAMBDA weakTopics :
              [ score |-> ScoreOf(g),
                total |-> Len(questions),
                weakTopics |-> weakTopics,
                suggestions |-> Suggestions(weakTopics),
                mistakes |-> MistakesOf(g) ]))

-----------------------------------------------------------------------------
(* Exam attempts: createAttempt and submitAttempt *)

\* the most attempts the table holds
MaxAttempts == 2

\* the mutation calls that run concurrently
MaxTxs == 2

Users == {"u1", "u2"}

\* getCurrentUser returned null
NoUser == "nobody"

Callers == Users \cup {NoUser}

ExampleExam ==
  << Question(1, "mcq", Str("Q1"), FourOptions, Num(2), 1, Str("operating_systems"),
              Undef),
     Question(2, "nat", Str("Q2"), Undef, Num(12), 2, Undef, Undef) >>

\* args.questions of createAttempt
QuestionInputs == { <<>>, ExampleExam }

\* args.answers and args.durationSec of submitAttempt
SubmitInputs ==
  { [answers |-> <<>>, durationSec |-> Dec(0 - 5500)],
    [answers |-> << <<"1", Num(2)>>, <<"2", Dec(11995)>> >>,
     durationSec |-> Dec(30700)] }

NoInput == [answers |-> <<>>, durationSec |-> Num(0)]

\* Date.now(): the calls of one behaviour all read the same clock value
DateNow == 0

\* the document ctx.db.insert stores
NewAttempt(user, questions, time) ==
  [ userId |-> user, questions |-> questions, answers |-> <<>>, score |-> 0,
    total |-> Len(questions), durationSec |-> Num(0),
    guidance |-> [weakTopics |-> <<>>, suggestions |-> <<>>],
    completed |-> FALSE, startedAt |-> time, submittedAt |-> None ]

\* ctx.db.get(attemptId): None when no such document exists
Get(attemptId) ==
  IF attemptId \in 1..Len(attempts) THEN Some(attempts[attemptId]) ELSE None

NotAuthenticated == "Not authenticated"

NotFound == "Attempt not found"

NotAuthorized == "Not authorized to submit this attempt"

AlreadySubmitted == "Attempt already submitted"

\* submitAttempt without the check of attempt.completed
SubmitError_noStateCheck(user, doc) ==
  IF user = NoUser THEN NotAuthenticated
  ELSE IF doc = None THEN NotFound
  ELSE IF doc[1].userId # user THEN NotAuthorized
  ELSE "none"

\* submitAttempt without the check of attempt.userId
SubmitError_noOwnerCheck(user, doc) ==
  IF user = NoUser THEN NotAuthenticated
  ELSE IF doc = None THEN NotFound
  ELSE IF doc[1].completed THEN AlreadySubmitted
  ELSE "none"

\* submitAttempt checking attempt.completed before attempt.userId
SubmitError_stateBeforeOwner(user, doc) ==
  IF user = NoUser THEN NotAuthenticated
  ELSE IF doc = None THEN NotFound
  ELSE IF doc[1].completed THEN AlreadySubmitted
  ELSE IF doc[1].userId # user THEN NotAuthorized
  ELSE "none"

\* the error submitAttempt throws for caller user and the document read
SubmitError(user, doc) ==
  IF user = NoUser THEN NotAuthenticated
  ELSE IF doc = None THEN NotFound
  ELSE IF doc[1].userId # user THEN NotAuthorized
  ELSE IF doc[1].completed THEN AlreadySubmitted
  ELSE "none"

\* Math.max(0, Math.floor(durationSec)): NaN stays NaN
StoredDuration(v) ==
  IF IsNaNValue(v) THEN NaNValue ELSE Num(Max(0, Floor(v.n)))

Patched_totalFromAnswers(doc, input, graded, time) ==
  [ doc EXCEPT
      !.answers = input.answers,
      !.score = graded.score,
      !.total = Len(input.answers),
      !.durationSec = StoredDuration(input.durationSec),
      !.guidance = [ weakTopics |-> graded.weakTopics,
                     suggestions |-> graded.suggestions ],
      !.completed = TRUE,
      !.submittedAt = Some(time) ]

Patched_noSubmittedAt(doc, input, graded, time) ==
  [ doc EXCEPT
      !.answers = input.answers,
      !.score = graded.score,
      !.durationSec = StoredDuration(input.durationSec),
      !.guidance = [ weakTopics |-> graded.weakTopics,
                     suggestions |-> graded.suggestions ],
      !.completed = TRUE ]

\* the document after ctx.db.patch, result being the grading
Patched(doc, input, graded, time) ==
  [ doc EXCEPT
      !.answers = input.answers,
      !.score = graded.score,
      !.durationSec = StoredDuration(input.durationSec),
      !.guidance = [ weakTopics |-> graded.weakTopics,
                     suggestions |-> graded.suggestions ],
      !.completed = TRUE,
      !.submittedAt = Some(time) ]

\* the call that ended last: its arguments, the error thrown, the value returned
Ended(op, user, attemptId, input, error, ret) ==
  [ op |-> op, user |-> user, attemptId |-> attemptId, input |-> input,
    error |-> error, ret |-> ret ]

NoCall == Ended("none", NoUser, 0, NoInput, "none", None)

IdleTx ==
  [ pc |-> "idle", user |-> NoUser, attemptId |-> 0, input |-> NoInput,
    snap |-> None, error |-> "none", retries |-> 0 ]

AttemptInit ==
  /\ attempts = <<>>
  /\ last = NoCall
  /\ txs = [s \in 1..MaxTxs |-> IdleTx]
  /\ patches = <<>>

\* the handler of createAttempt for one caller and question sequence
Create(user, questions) ==
  IF user = NoUser
  THEN /\ last' = Ended("create", user, 0, NoInput, NotAuthenticated, None)
       /\ UNCHANGED <<attempts, patches>>
  ELSE /\ attempts' = Append(attempts, NewAttempt(user, questions, DateNow))
       /\ patches' = Append(patches, 0)
       /\ last' = Ended("create", user, Len(attempts) + 1, NoInput, "none",
                        None)

\* createAttempt, the whole mutation
CreateAttempt ==
  /\ Len(attempts) < MaxAttempts
  /\ \E user \in Callers, questions \in QuestionInputs :
       Create(user, questions)
  /\ UNCHANGED <<txs, genVars>>

\* the handler of submitAttempt for one caller, attempt id and input
Submit(user, attemptId, input) ==
  \E doc \in {Get(attemptId)} :
    IF SubmitError(user, doc) # "none"
    THEN /\ last' = Ended("submit", user, attemptId, input,
                          SubmitError(user, doc), None)
         /\ UNCHANGED <<attempts, patches>>
    ELSE \E graded \in {Grading(doc[1].questions, input.answers)} :
           /\ attempts' =
                [attempts EXCEPT
                   ![attemptId] = Patched(doc[1], input, graded, DateNow)]
           /\ patches' = [patches EXCEPT ![attemptId] = @ + 1]
           /\ last' = Ended("submit", user, attemptId, input, "none",
                            Some(graded))

\* submitAttempt, the whole mutation
SubmitAttempt ==
  /\ \E user \in Callers, attemptId \in 1..(Len(attempts) + 1),
        input \in SubmitInputs :
       Submit(user, attemptId, input)
  /\ UNCHANGED <<txs, genVars>>

AttemptNext == CreateAttempt \/ SubmitAttempt

-----------------------------------------------------------------------------
(* Grading: one submitAttempt call by the owner of an open attempt, over a  *)
(* family of exams and answer sheets                                         *)

\* the most questions an exam of the grading family has
MaxExamLen == 6

\* type and correct answer of the questions the exams are made of: the last
\* one has a text that Number() does not convert
Keys ==
  << [type |-> "mcq", answer |-> Num(2)],
     [type |-> "nat", answer |-> Num(12)],
     [type |-> "nat", answer |-> Str("3.5")],
     [type |-> "mcq", answer |-> Num(0)],
     [type |-> "nat", answer |-> Str("1/2")] >>

NumericKeys == 4

KeyPatterns == 0..NumericKeys

\* pattern o < NumericKeys cycles through the first four keys from o on;
\* the last pattern is pattern 0 with the text key at position 2
KeyAt(o, k) ==
  IF o = NumericKeys
  THEN (IF k = 2 THEN Keys[Len(Keys)] ELSE Keys[((k - 1) % NumericKeys) + 1])
  ELSE Keys[((k - 1 + o) % NumericKeys) + 1]

TopicNames ==
  << "operating_systems", "database_management", "computer_networks",
     "theory_of_computation", "compiler_design", "linear_algebra",
     "discrete_mathematics", "general_aptitude" >>

TopicPatterns == {"distinct", "pairs", "heavy", "numbered"}

\* q.topic of question k
TopicAt(p, k) ==
  CASE p = "distinct" -> Str(TopicNames[((k - 1) % Len(TopicNames)) + 1])
    [] p = "pairs" -> Str(TopicNames[(((k + 1) \div 2 - 1) % Len(TopicNames)) + 1])
    [] p = "heavy" -> Str(TopicNames[Min(k, 3)])
    [] OTHER -> IF k % 4 = 1 THEN Str("operating_systems")
                ELSE IF k % 4 = 2 THEN Undef
                ELSE IF k % 4 = 3 THEN Str("10")
                ELSE Str("9")

GradingExam(o, p, len) ==
  [k \in 1..len |->
     Question(k, KeyAt(o, k).type, Str("Q"),
              IF KeyAt(o, k).type = "mcq" THEN FourOptions ELSE Undef,
              KeyAt(o, k).answer, 1, TopicAt(p, k), Undef)]

GradingExams ==
  { GradingExam(o, p, len) :
      o \in KeyPatterns, p \in TopicPatterns, len \in 0..MaxExamLen }

Marks3 == {"blank", "exact", "other"}

\* the answers of a caller who leaves question k blank, gives its stored
\* answer, or gives a text that is neither an index nor a number
Sheet(questions, choice) ==
  LET Answered(k) == choice[k] # "blank"
  IN Let(SelectSeq([k \in 1..Len(questions) |-> k], Answered),
         LAMBDA ks :
           [p \in 1..Len(ks) |->
              << NumberToString(questions[ks[p]].id * Scale),
                 IF choice[ks[p]] = "exact" THEN questions[ks[p]].answer
                 ELSE Str("x") >>])

\* a question of id 1 that createAttempt accepts, told apart by its prompt
Probe(type, options, answer) ==
  Question(1, type, Str("P"), options, answer, 1, Str("operating_systems"),
           Undef)

\* exams of one question for the edge cases of the comparison, and exams
\* the validator accepts although they are not canonical: two questions of
\* the same id, 3 options with index 7, options on a numeric-answer question
ProbeExams ==
  { <<Probe("mcq", FourOptions, Num(2))>>,
    <<Probe("mcq", FourOptions, Str("2"))>>,
    <<Probe("mcq", FourOptions, Undef)>>,
    <<Probe("nat", Undef, Num(0))>>,
    <<Probe("nat", Undef, Num(12))>>,
    <<Probe("nat", Undef, Str("abc"))>>,
    <<Probe("mcq", FourOptions, Num(2)), Probe("nat", Undef, Num(12))>>,
    <<Probe("mcq", Arr(<<Str("w"), Str("x"), Str("y")>>), Num(7))>>,
    <<Probe("nat", FourOptions, Num(12))>> }

\* values submitted for question 1 of a probe: numbers at and next to the
\* stored ones (the decimal model is exact for them), NaN, and texts
ProbeValues ==
  { Num(0 - 1), Num(0), Num(2), Num(12), Dec(9), Dec(10), Dec(0 - 9),
    Dec(0 - 10), Dec(11995), NaNValue, Str("2"), Str(""), Str(" "),
    Str("0.0"), Str("x") }

\* createAttempt by u1, once
CreateGraded ==
  /\ attempts = <<>>
  /\ \E questions \in GradingExams \cup ProbeExams : Create("u1", questions)
  /\ UNCHANGED <<txs, genVars>>

\* the owner submits the open attempt
GradeSubmit ==
  /\ Len(attempts) = 1
  /\ ~attempts[1].completed
  /\ ~(/\ attempts[1].questions # <<>>
       /\ attempts[1].questions[1].question = Str("P"))
  /\ \E choice \in [1..Len(attempts[1].questions) -> Marks3] :
       Submit(attempts[1].userId, 1,
              [ answers |-> Sheet(attempts[1].questions, choice),
                durationSec |-> Num(30) ])
  /\ UNCHANGED <<txs, genVars>>

\* the owner submits the open probe, with no answer or one answer to
\* question 1 and a duration of 30, -5.5 or NaN
GradeProbe ==
  /\ Len(attempts) = 1
  /\ ~attempts[1].completed
  /\ attempts[1].questions # <<>>
  /\ attempts[1].questions[1].question = Str("P")
  /\ \E answers \in {<<>>} \cup { << <<"1", v>> >> : v \in ProbeValues },
        durationSec \in { Num(30), Dec(0 - 5500), NaNValue } :
       Submit(attempts[1].userId, 1,
              [answers |-> answers, durationSec |-> durationSec])
  /\ UNCHANGED <<txs, genVars>>

GradingNext == CreateGraded \/ GradeSubmit \/ GradeProbe

-----------------------------------------------------------------------------
(* listAttempts, over a table that createAttempt fills *)

\* the most attempts the listed table holds
MaxListed == 12

\* take(10)
ListLimit == 10

RECURSIVE Reverse(_)
Reverse(xs) == IF xs = <<>> THEN <<>> ELSE Append(Reverse(Tail(xs)), Head(xs))

\* Listed reading the index from its oldest entry on
Listed_oldestFirst(user) ==
  IF user = NoUser THEN <<>>
  ELSE LET Mine(k) == attempts[k].userId = user
       IN Let(SelectSeq([k \in 1..Len(attempts) |-> k], Mine),
              LAMBDA mine : SubSeq(mine, 1, Min(Len(mine), ListLimit)))

\* what listAttempts returns to user, as the ids of the documents: the
\* entries of index by_user for the user, which the index keeps in creation
\* order, read from the newest on, the first ListLimit of them
Listed(user) ==
  IF user = NoUser THEN <<>>
  ELSE LET Mine(k) == attempts[k].userId = user
       IN Let(Reverse(SelectSeq([k \in 1..Len(attempts) |-> k], Mine)),
              LAMBDA desc : SubSeq(desc, 1, Min(Len(desc), ListLimit)))

\* createAttempt, filling the listed table
CreateListed ==
  /\ Len(attempts) < MaxListed
  /\ \E user \in Callers : Create(user, ExampleExam)
  /\ UNCHANGED <<txs, genVars>>

\* listAttempts, the whole query
ListAttempts ==
  /\ \E user \in Callers :
       last' = Ended("list", user, 0, NoInput, "none", Some(Listed(user)))
  /\ UNCHANGED <<attempts, patches, txs, genVars>>

ListNext == CreateListed \/ ListAttempts

-----------------------------------------------------------------------------
(* Concurrent submitAttempt calls: each call is a transaction that reads a   *)
(* snapshot and commits only if the document it read has not been written  *)
(* since; otherwise the mutation is run again on the new snapshot.          *)

\* the document the transaction read has been written since
Conflict(tx) == Get(tx.attemptId) # tx.snap

\* one open attempt exists
ConcurrentInit ==
  /\ \E user \in Users, questions \in QuestionInputs :
       attempts = <<NewAttempt(user, questions, DateNow)>>
  /\ last = NoCall
  /\ txs = [s \in 1..MaxTxs |-> IdleTx]
  /\ patches = <<0>>

\* a submitAttempt call starts: the handler reads the attempt
TxBegin(s) ==
  /\ txs[s].pc = "idle"
  /\ \E user \in Callers, attemptId \in 1..(Len(attempts) + 1),
        input \in SubmitInputs :
       txs' = [txs EXCEPT ![s] =
                 [ pc |-> "running", user |-> user, attemptId |-> attemptId,
                   input |-> input, snap |-> Get(attemptId), error |-> "none",
                   retries |-> 0 ]]
  /\ UNCHANGED <<attempts, last, patches, genVars>>

\* the transaction cannot commit: the handler is run again
TxRetry(s) ==
  /\ txs[s].pc = "running"
  /\ Conflict(txs[s])
  /\ txs' = [txs EXCEPT ![s].snap = Get(txs[s].attemptId),
                        ![s].retries = @ + 1]
  /\ UNCHANGED <<attempts, last, patches, genVars>>

\* the handler's checks, run on the snapshot, throw
TxFail(s) ==
  /\ txs[s].pc = "running"
  /\ ~Conflict(txs[s])
  /\ SubmitError(txs[s].user, txs[s].snap) # "none"
  /\ txs' = [txs EXCEPT ![s].pc = "done",
                        ![s].error = SubmitError(txs[s].user, txs[s].snap),
                        ![s].input = NoInput, ![s].snap = None]
  /\ UNCHANGED <<attempts, last, patches, genVars>>

\* the handler's patch commits
TxCommit(s) ==
  /\ txs[s].pc = "running"
  /\ ~Conflict(txs[s])
  /\ SubmitError(txs[s].user, txs[s].snap) = "none"
  /\ \E graded \in {Grading(txs[s].snap[1].questions, txs[s].input.answers)} :
       attempts' = [attempts EXCEPT ![txs[s].attemptId] =
                      Patched(txs[s].snap[1], txs[s].input, graded, DateNow)]
  /\ patches' = [patches EXCEPT ![txs[s].attemptId] = @ + 1]
  /\ txs' = [txs EXCEPT ![s].pc = "done", ![s].input = NoInput,
                        ![s].snap = None]
  /\ UNCHANGED <<last, genVars>>

ConcurrentNext ==
  \/ \E s \in 1..MaxTxs : TxBegin(s)
  \/ \E s \in 1..MaxTxs : TxRetry(s)
  \/ \E s \in 1..MaxTxs : TxFail(s)
  \/ \E s \in 1..MaxTxs : TxCommit(s)

-----------------------------------------------------------------------------
(* Specifications *)

\* one call of generateExam
Init == GenInit /\ AttemptInit

Spec == Init /\ [][GenNext]_vars

\* one generateExam call that leaves includeExplanations and subjectMix out
InitLive ==
  /\ Init
  /\ args.includeExplanations = None
  /\ args.subjectMix = None

\* the handler keeps running and every awaited provider call settles, by
\* resolving or by rejecting
SpecLive == InitLive /\ [][GenNext]_vars /\ WF_vars(GenNext)

GenIdle ==
  /\ env = [anthropic |-> <<Undef, Undef>>, openrouter |-> <<Undef, Undef, Undef>>]
  /\ args = [numQuestions |-> None, includeExplanations |-> None, subjectMix |-> None]
  /\ pc = "start"
  /\ cand = NoSite
  /\ calls = <<>>
  /\ inflight = 0
  /\ lastErr = "none"
  /\ failures = 0
  /\ result = <<>>
  /\ source = "none"
  /\ thrown = FALSE

\* createAttempt and submitAttempt calls, one after the other
InitAttempts == GenIdle /\ AttemptInit

SpecAttempts == InitAttempts /\ [][AttemptNext]_vars

\* submitAttempt calls overlapping in time
InitConcurrent == GenIdle /\ ConcurrentInit

SpecConcurrent == InitConcurrent /\ [][ConcurrentNext]_vars

\* one attempt created and submitted
InitGrading == GenIdle /\ AttemptInit

SpecGrading == InitGrading /\ [][GradingNext]_vars

\* createAttempt and listAttempts calls, one after the other
InitList == GenIdle /\ AttemptInit

SpecList == InitList /\ [][ListNext]_vars

-----------------------------------------------------------------------------
(* Properties of generateExam *)

Providers == {"anthropic"} \cup {models[k] : k \in 1..Len(models)}

Finished == pc = "done" /\ ~thrown

\* the candidates the configured credentials give, in the cascade's order
ConfiguredCascade ==
  (IF anthropicKey # "" THEN <<"anthropic">> ELSE <<>>)
  \o (IF openrouterKey # "" THEN models ELSE <<>>)

Occurrences(x) == Cardinality({k \in 1..Len(calls) : calls[k] = x})

IsIndex(answer) == answer \in {Num(0), Num(1), Num(2), Num(3)}

\* the Canonical Question invariants
Canonical(q) ==
  /\ q.type \in {"mcq", "nat"}
  /\ q.type = "mcq" =>
       /\ q.options.t = "array"
       /\ Len(q.options.a) = 4
       /\ IsIndex(q.answer)
  /\ q.type = "nat" => q.options = Undef

\* C1: generateExam returns exactly clamp(n, 5, 65) questions, whatever the
\* credentials and the providers' answers are.
C1_ExactCount == Finished => Len(result) = numQuestions

\* C2: generateExam never throws: every call ends by returning a question
\* sequence, whatever the credentials and the providers' failures are.
C2_NeverThrows ==
  /\ ~thrown
  /\ pc = "done" => source \in Providers \cup {"local"}
  /\ source = "local" => Len(result) = numQuestions

\* all five calls of the cascade failed and the local generator answered
C2_Witness ==
  /\ pc = "done"
  /\ source = "local"
  /\ failures = 5
  /\ calls = <<"anthropic">> \o models \o <<models[1]>>

\* C7: every question generateExam returns, from a provider or from the local
\* generator, is canonical: a multiple-choice question has exactly 4 options
\* and a correct index in {0,1,2,3}, a numeric-answer question has no options.
C7_Canonical == Finished => \A k \in 1..Len(result) : Canonical(result[k])

\* C8: the cascade is Anthropic (when configured), then the OpenRouter models
\* in list order, then the local generator; a candidate is called only once
\* all candidates before it have failed, the local generator only once all
\* configured candidates have failed, and every kind of failure advances.
C8_Order ==
  /\ \A k \in 1..Min(Len(calls), Len(ConfiguredCascade)) :
        calls[k] = ConfiguredCascade[k]
  /\ pc = "await" => failures = Len(calls) - 1 /\ inflight = 1
  /\ source \in Providers => failures = Len(calls) - 1
  /\ source = "local" =>
        failures = Len(calls) /\ Len(calls) >= Len(ConfiguredCascade)
  /\ (pc = "await" /\ Len(calls) > 1) =>
        lastErr \in FailKinds \cup {"typeerror"}

C8_Advance ==
  [][(pc = "await" /\ failures' = failures + 1
      /\ Len(calls) < Len(ConfiguredCascade))
     => (pc' = "await"
         /\ calls' = Append(calls, ConfiguredCascade[Len(calls) + 1]))]_vars

C9_NoRepeat == \A x \in Providers : Occurrences(x) <= 1

\* C9 (amended): Anthropic and the second and third OpenRouter models are
\* called at most once; the first OpenRouter model is called at most twice,
\* the second time as the last call, after all three models have failed; a
\* failed candidate is never called again right away.
C9_OneFinalRetry ==
  /\ \A x \in Providers \ {models[1]} : Occurrences(x) <= 1
  /\ Occurrences(models[1]) <= 2
  /\ Occurrences(models[1]) = 2 =>
       /\ calls[Len(calls)] = models[1]
       /\ \A k \in 1..Len(models) : Occurrences(models[k]) >= 1
       /\ failures >= Len(models)
  /\ \A k \in 1..(Len(calls) - 1) : calls[k] # calls[k + 1]

\* the first OpenRouter model is being called for the second time
C9_Witness ==
  /\ pc = "await"
  /\ Occurrences(models[1]) = 2
  /\ cand.site = "lastAttempt"

\* C10: a provider's array that gives no question is not returned:
\* generateExam goes on to the next candidate.
C10_EmptyAdvances == (Finished /\ source \in Providers) => Len(result) > 0

\* a credential none of whose environment variables holds a key
Blank(v) == v = Undef \/ (v.t = "string" /\ Trim(v.s) = "")

Unconfigured ==
  /\ \A k \in 1..Len(env.anthropic) : Blank(env.anthropic[k])
  /\ \A k \in 1..Len(env.openrouter) : Blank(env.openrouter[k])

\* C11: with neither credential configured (every variable absent, empty or
\* white space only) generateExam makes no external call and returns what
\* the local generator gives.
C11_NoKeysLocal ==
  Unconfigured =>
    /\ calls = <<>>
    /\ inflight = 0
    /\ pc = "done" =>
         /\ source = "local"
         /\ ~thrown
         /\ result = buildLocalQuestions(numQuestions, topics,
                                         includeExplanations)

\* the call ended with the local questions, the variables being set to white
\* space and to the empty string
C11_Witness ==
  /\ Unconfigured
  /\ env.anthropic # <<Undef, Undef>>
  /\ env.openrouter # <<Undef, Undef, Undef>>
  /\ pc = "done"
  /\ source = "local"
  /\ Len(result) = numQuestions

\* C12: at most one provider request is outstanding at any time, and the
\* next request is made only when the current one has failed.
C12_Sequential ==
  /\ inflight \in {0, 1}
  /\ inflight = 1 <=> pc = "await"
  /\ pc = "await" => failures = Len(calls) - 1

\* the fourth request is outstanding, the three before it have failed
C12_Witness ==
  /\ pc = "await"
  /\ Len(calls) = 4
  /\ failures = 3
  /\ inflight = 1

\* C27: when generateExam is called with includeExplanations false, no
\* question returned from a provider carries an explanation.
C27_OnlyRequested ==
  (Finished /\ source \in Providers /\ ~includeExplanations) =>
    \A k \in 1..Len(result) : result[k].explanation = Undef

\* the weights of the elements of the providers' arrays that carry the
\* prompt of question q
SourceMarks(q) ==
  { RawElems[j].marks :
      j \in { i \in 1..Len(RawElems) :
                /\ RawElems[i].kind # "null"
                /\ Str(ToStr(Coalesce(RawElems[i].question, Str("Untitled"))))
                     = q.question } }

\* C28: the ids of a returned sequence are 1..k in order, whatever ids the
\* provider gave; every weight is 1 or 2, and a question returned from a
\* provider has weight 2 exactly when its source element has the number 2.
C28_IdsAndMarks ==
  Finished =>
    \A k \in 1..Len(result) :
      /\ result[k].id = k
      /\ result[k].marks \in {1, 2}
      /\ source \in Providers =>
           /\ SourceMarks(result[k]) # {}
           /\ result[k].marks = 2 => SourceMarks(result[k]) = {Num(2)}
           /\ result[k].marks = 1 => Num(2) \notin SourceMarks(result[k])

\* a provider's array with ids 7, 7, none, "a", 1 and weights 2, 1, 3, "2", 2
\* was returned with ids 1..5 and weights 2, 1, 1, 1, 2
C28_Witness ==
  /\ Finished
  /\ source \in Providers
  /\ Len(result) >= 5
  /\ result[1].question = Str("Q1") /\ result[1].marks = 2
  /\ result[3].question = Str("Untitled") /\ result[3].marks = 1
  /\ result[4].question = Str("Q4") /\ result[4].marks = 1
  /\ result[5].question = Str("Q5") /\ result[5].marks = 2 /\ result[5].id = 5

\* C29: the question at 0-based position i of a locally generated exam has
\* the topic topics[i mod length(topics)].
C29_TopicCycle ==
  (Finished /\ source = "local") =>
    \A k \in 1..Len(result) :
      result[k].topic = Str(topics[((k - 1) % Len(topics)) + 1])

-----------------------------------------------------------------------------
(* Properties of submitAttempt *)

Exists(attemptId) == attemptId \in 1..Len(attempts)

\* the submitAttempt calls that have ended, made by the owner of attemptId
OwnerDone(attemptId) ==
  { s \in 1..MaxTxs :
      /\ txs[s].pc = "done"
      /\ txs[s].attemptId = attemptId
      /\ txs[s].user = attempts[attemptId].userId }

\* C3: of the concurrent submitAttempt calls made by the owner for one open
\* attempt, one succeeds and every other fails with the already-submitted
\* conflict; no two succeed, and a stored result is never overwritten.
C3_OneWinner ==
  \A id \in 1..Len(attempts) :
    /\ patches[id] <= 1
    /\ Cardinality({s \in OwnerDone(id) : txs[s].error = "none"}) <= 1
    /\ OwnerDone(id) # {} =>
         \E s \in OwnerDone(id) :
           /\ txs[s].error = "none"
           /\ \A o \in OwnerDone(id) \ {s} : txs[o].error = AlreadySubmitted

C3_NoOverwrite ==
  [][\A id \in 1..Len(attempts) :
       attempts[id].completed => attempts'[id] = attempts[id]]_vars

C3_Concurrent == []C3_OneWinner /\ C3_NoOverwrite

\* two calls by the owner read the open attempt; one committed, the other
\* was run again and failed with the conflict
C3_Witness ==
  \E s \in OwnerDone(1), o \in OwnerDone(1) :
    /\ txs[s].error = "none"
    /\ txs[o].error = AlreadySubmitted
    /\ txs[o].retries = 1
    /\ attempts[1].completed

\* C4: a submitAttempt by the owner for an attempt that is already submitted
\* fails with AlreadySubmitted and leaves every field of the attempt as it
\* was, whatever answers the call carries.
C4_Resubmit ==
  [][(/\ last'.op = "submit"
      /\ Exists(last'.attemptId)
      /\ attempts[last'.attemptId].completed
      /\ last'.user = attempts[last'.attemptId].userId)
     => (last'.error = AlreadySubmitted /\ attempts' = attempts)]_vars

\* a second submission carrying other answers than the stored ones failed
C4_Witness ==
  /\ last.op = "submit"
  /\ last.error = AlreadySubmitted
  /\ attempts[last.attemptId].completed
  /\ last.input.answers # attempts[last.attemptId].answers
  /\ last.input.answers # <<>>

\* C5: a submitAttempt by an authenticated caller who is not the owner fails
\* with NotAuthorized, and no call made by another user changes an attempt.
C5_OwnerOnly ==
  [][/\ \A id \in 1..Len(attempts) :
          last'.user # attempts[id].userId => attempts'[id] = attempts[id]
     /\ (/\ last'.op = "submit"
         /\ Exists(last'.attemptId)
         /\ last'.user \in Users
         /\ last'.user # attempts[last'.attemptId].userId)
        => (last'.error = NotAuthorized /\ attempts' = attempts)]_vars

\* another user's submission for an open attempt was refused
C5_Witness ==
  /\ last.op = "submit"
  /\ last.error = NotAuthorized
  /\ last.user \in Users
  /\ ~attempts[last.attemptId].completed
  /\ last.input.answers # <<>>

\* the first of the four failures that applies, in the order caller
\* identity, existence, ownership, state
FirstFailure(user, attemptId) ==
  IF user = NoUser THEN NotAuthenticated
  ELSE IF ~Exists(attemptId) THEN NotFound
  ELSE IF attempts[attemptId].userId # user THEN NotAuthorized
  ELSE IF attempts[attemptId].completed THEN AlreadySubmitted
  ELSE "none"

\* C6: submitAttempt reports the first failure that applies in the order
\* AuthenticationRequired, NotFound, NotAuthorized, AlreadySubmitted, and the
\* four errors are distinct.
C6_GuardOrder ==
  [][last'.op = "submit" =>
       /\ last'.error = FirstFailure(last'.user, last'.attemptId)
       /\ Cardinality({NotAuthenticated, NotFound, NotAuthorized,
                       AlreadySubmitted, "none"}) = 5]_vars

\* somebody else than the owner submitted an attempt that was already
\* submitted, and was told NotAuthorized
C6_Witness ==
  /\ last.op = "submit"
  /\ last.user \in Users
  /\ Exists(last.attemptId)
  /\ attempts[last.attemptId].completed
  /\ attempts[last.attemptId].userId # last.user
  /\ last.error = NotAuthorized

\* C21: a submitAttempt that succeeds leaves the questions, the owner, the
\* total and the creation time of the attempt as they were and changes no
\* other attempt; an attempt that is submitted never changes again.
C21_Frame ==
  [][\A id \in 1..Len(attempts) :
       /\ attempts'[id].questions = attempts[id].questions
       /\ attempts'[id].userId = attempts[id].userId
       /\ attempts'[id].total = attempts[id].total
       /\ attempts'[id].startedAt = attempts[id].startedAt
       /\ (last'.op = "submit" /\ last'.error = "none"
              /\ id # last'.attemptId) => attempts'[id] = attempts[id]
       /\ attempts[id].completed => attempts'[id] = attempts[id]]_vars

\* the first of two attempts was just submitted with answers, the second
\* is still open
C21_Witness ==
  /\ Len(attempts) = 2
  /\ last.op = "submit"
  /\ last.error = "none"
  /\ last.attemptId = 1
  /\ attempts[1].answers # <<>>
  /\ attempts[1].questions # <<>>
  /\ ~attempts[2].completed

IsOpen(a) ==
  /\ ~a.completed
  /\ a.score = 0
  /\ a.answers = <<>>
  /\ a.guidance = [weakTopics |-> <<>>, suggestions |-> <<>>]
  /\ a.submittedAt = None

IsSubmitted(a) == a.completed /\ a.submittedAt # None

\* C22: every stored attempt is either open, with score 0, no answers, no
\* guidance and no submission time, or submitted, with a submission time;
\* an attempt never goes from submitted back to open.
C22_TwoStates ==
  /\ [](\A id \in 1..Len(attempts) :
          IsOpen(attempts[id]) \/ IsSubmitted(attempts[id]))
  /\ [][\A id \in 1..Len(attempts) :
          attempts[id].completed => attempts'[id].completed]_vars

\* an open attempt next to a submitted one that scored
C22_Witness ==
  \E i \in 1..Len(attempts), j \in 1..Len(attempts) :
    /\ IsOpen(attempts[i])
    /\ IsSubmitted(attempts[j])
    /\ attempts[j].score > 0

\* v >= 0 in JavaScript: false for NaN
AtLeastZero(v) == ~IsNaNValue(v) /\ v.n >= 0

\* C23: every stored attempt has 0 <= score <= total, total equal to the
\* number of its questions, and durationSec >= 0.
C23_Bounds ==
  \A id \in 1..Len(attempts) :
    /\ 0 <= attempts[id].score
    /\ attempts[id].score <= attempts[id].total
    /\ attempts[id].total = Len(attempts[id].questions)
    /\ AtLeastZero(attempts[id].durationSec)

-----------------------------------------------------------------------------
(* Properties of the grading *)

\* a submitAttempt call has graded attempt 1 and returned
GradedNow == last.op = "submit" /\ last.error = "none" /\ last.attemptId = 1

Report == last.ret[1]

Asked == attempts[1].questions

KeyOf(q) == NumberToString(q.id * Scale)

\* for every question its stored correct answer
ExactSheet(questions) ==
  [k \in 1..Len(questions) |-> <<KeyOf(questions[k]), questions[k].answer>>]

HasAnswer(q) == q.answer # Undef

\* the stored answer is a number, or for a numeric-answer question a text
\* that Number() converts to a number
Numeric(q) ==
  IF q.type = "mcq" THEN q.answer.t = "number" ELSE ~ToNumber(q.answer).nan

FullMarks == Report.score = Report.total /\ Report.mistakes = <<>>

\* C13 (as claimed): when every question has a correct answer, number or
\* text, submitting exactly the stored answers gives score = total and no
\* mistakes.
C13_ExactAny ==
  (/\ GradedNow
   /\ \A k \in 1..Len(Asked) : HasAnswer(Asked[k])
   /\ last.input.answers = ExactSheet(Asked))
  => FullMarks

\* C13, the numeric case: when every stored answer is a number, or for a
\* numeric-answer question a text that converts to a number, submitting
\* exactly the stored answers gives score = total and no mistakes.
C13_ExactNumeric ==
  (/\ GradedNow
   /\ \A k \in 1..Len(Asked) : Numeric(Asked[k])
   /\ last.input.answers = ExactSheet(Asked))
  => (FullMarks /\ Report.total = Len(Asked))

\* an exam with a multiple-choice, a number and a text answer was submitted
\* with its stored answers and got full marks
C13_Witness ==
  /\ GradedNow
  /\ Len(Asked) = MaxExamLen
  /\ last.input.answers = ExactSheet(Asked)
  /\ \E k \in 1..Len(Asked) : Asked[k].type = "mcq"
  /\ \E k \in 1..Len(Asked) : Asked[k].answer = Str("3.5")
  /\ \E k \in 1..Len(Asked) : Asked[k].answer = Num(12)
  /\ Report.score = MaxExamLen

Unanswered(q) == Lookup(last.input.answers, KeyOf(q)) = Undef

\* C14: a question with no submitted answer is graded incorrect and listed
\* in mistakes with yours = "blank", and the call does not fail; with the
\* empty mapping the score is 0 and mistakes lists every question in order.
C14_Blank ==
  /\ (last.op = "submit" /\ last.attemptId = 1) => last.error = "none"
  /\ GradedNow =>
       /\ \A k \in 1..Len(Asked) :
            Unanswered(Asked[k]) =>
              \E m \in 1..Len(Report.mistakes) :
                /\ Report.mistakes[m].id = Asked[k].id
                /\ Report.mistakes[m].yours = "blank"
       /\ Report.score <= Cardinality({k \in 1..Len(Asked) : ~Unanswered(Asked[k])})
       /\ last.input.answers = <<>> =>
            /\ Report.score = 0
            /\ Len(Report.mistakes) = Len(Asked)
            /\ \A k \in 1..Len(Asked) :
                 /\ Report.mistakes[k].id = Asked[k].id
                 /\ Report.mistakes[k].yours = "blank"

\* the empty mapping was submitted for an exam of the greatest length
C14_Witness ==
  /\ GradedNow
  /\ Len(Asked) = MaxExamLen
  /\ last.input.answers = <<>>
  /\ Len(Report.mistakes) = MaxExamLen

\* the questions of topic t that are listed in mistakes
Missed(t) ==
  Cardinality({m \in 1..Len(Report.mistakes) : Report.mistakes[m].topic = t})

\* the position of the first question of topic t
FirstPos(t) ==
  CHOOSE k \in 1..Len(Asked) :
    /\ TopicOf(Asked[k]) = t
    /\ \A j \in 1..(k - 1) : TopicOf(Asked[j]) # t

\* topic a ranks before topic b: more misses, or as many and met earlier
Before(a, b) ==
  \/ Missed(a) > Missed(b)
  \/ (Missed(a) = Missed(b) /\ FirstPos(a) < FirstPos(b))

MissedTopics == {t \in {TopicOf(Asked[k]) : k \in 1..Len(Asked)} : Missed(t) > 0}

\* C15: weakTopics holds only topics with a missed question, at most 4, by
\* descending miss count, equal counts in the order of the topics' first
\* questions; with more than 4 such topics it holds the first 4 of that order.
C15_WeakTopics ==
  GradedNow =>
    LET weak == Report.weakTopics
    IN /\ Len(weak) = Min(Cardinality(MissedTopics), MaxWeakTopics)
       /\ \A i \in 1..Len(weak) : weak[i] \in MissedTopics
       /\ \A i \in 1..Len(weak), j \in 1..Len(weak) :
            i < j => Before(weak[i], weak[j])
       /\ \A t \in MissedTopics :
            (\A i \in 1..Len(weak) : weak[i] # t) =>
              \A i \in 1..Len(weak) : Before(weak[i], t)

\* C16: suggestions always ends with the same three generic lines in the
\* same order, and has one more line, the topic line, in front of them
\* exactly when weakTopics is not empty: 4 lines with a weak topic, else 3.
C16_Suggestions ==
  GradedNow =>
    LET lines == Report.suggestions
        n == Len(lines)
    IN /\ n = (IF Report.weakTopics # <<>> THEN 4 ELSE 3)
       /\ SubSeq(lines, n - 2, n) = GenericSuggestions
       /\ n = 4 => /\ lines[1] \notin {GenericSuggestions[k] : k \in 1..3}
                   /\ SubSeq(lines[1], 1, 12) = "Focus next: "
       /\ attempts[1].guidance.suggestions = lines

\* two weak topics are named, with spaces, in front of the generic lines
C16_Witness ==
  /\ GradedNow
  /\ Len(Report.weakTopics) = 2
  /\ Report.suggestions[1] =
       "Focus next: operating systems, database management"
  /\ Len(Report.suggestions) = 4

\* the entries ms are entries for questions of qs, in the order of qs, at
\* most one for each
RECURSIVE InOrder(_, _)
InOrder(ms, qs) ==
  IF ms = <<>> THEN TRUE
  ELSE IF qs = <<>> THEN FALSE
  ELSE IF Head(ms).id = Head(qs).id /\ Head(ms).topic = TopicOf(Head(qs))
       THEN InOrder(Tail(ms), Tail(qs))
       ELSE InOrder(ms, Tail(qs))

\* C24: in the result of a successful submitAttempt score plus the number
\* of mistakes is the total, the number of questions, and mistakes holds
\* one entry per question that was not graded correct, in the order of
\* the questions.
C24_Total ==
  GradedNow =>
    /\ Report.total = Len(Asked)
    /\ Report.score + Len(Report.mistakes) = Report.total
    /\ Report.score = attempts[1].score
    /\ InOrder(Report.mistakes, Asked)

\* of five or more questions the first and third were missed, the second
\* and the last were not
C24_Witness ==
  /\ GradedNow
  /\ Len(Asked) >= 5
  /\ Report.score >= 2
  /\ Len(Report.mistakes) >= 2
  /\ Report.mistakes[1].id = Asked[1].id
  /\ Report.mistakes[2].id = Asked[3].id
  /\ \A p \in 1..Len(Report.mistakes) :
       Report.mistakes[p].id # Asked[Len(Asked)].id

\* no two questions of the exam have the same id
DistinctIds(questions) ==
  \A i \in 1..Len(questions), j \in 1..Len(questions) :
    questions[i].id = questions[j].id => i = j

\* the value submitted for question q, Undef when there is none
Submitted(q) == Lookup(last.input.answers, KeyOf(q))

\* question q is not listed in mistakes
GradedCorrect(q) ==
  \A p \in 1..Len(Report.mistakes) : Report.mistakes[p].id # q.id

\* two numbers that are exactly equal
SameNumber(a, b) ==
  /\ a.t = "number" /\ ~IsNaNValue(a)
  /\ b.t = "number" /\ ~IsNaNValue(b)
  /\ a.n = b.n

\* C25: a multiple-choice question is graded correct if and only if the
\* stored answer is a number and the submitted value is a number equal to
\* it; a text, an absent value and any value submitted to a question whose
\* stored answer is not a number are graded incorrect.
C25_McqExact ==
  (GradedNow /\ DistinctIds(Asked)) =>
    \A k \in 1..Len(Asked) :
      Asked[k].type = "mcq" =>
        (GradedCorrect(Asked[k])
           <=> SameNumber(Asked[k].answer, Submitted(Asked[k])))

\* the claim's notion of a value that coerces to a number: a number other
\* than NaN, or a text that is not blank and that Number() converts
Coerces(v) ==
  \/ v.t = "number" /\ ~IsNaNValue(v)
  \/ v.t = "string" /\ Trim(v.s) # "" /\ ~ToNumber(v).nan

\* C26: a numeric-answer question is graded correct if and only if the
\* stored and the submitted value both coerce to numbers that differ by
\* less than 0.01; an absent, blank or non-numeric submission is incorrect.
C26_NatTolerance ==
  (GradedNow /\ DistinctIds(Asked)) =>
    \A k \in 1..Len(Asked) :
      Asked[k].type = "nat" =>
        (GradedCorrect(Asked[k])
           <=> /\ Coerces(Asked[k].answer)
               /\ Coerces(Submitted(Asked[k]))
               /\ Abs(ToNumber(Asked[k].answer).n
                        - ToNumber(Submitted(Asked[k])).n) < Tolerance)

\* C30: every stored attempt holds canonical questions: the ids are unique
\* within the attempt, a multiple-choice question has exactly 4 options and
\* an index in 0..3, a numeric-answer question has no options.
C30_StoredCanonical ==
  \A id \in 1..Len(attempts) :
    /\ DistinctIds(attempts[id].questions)
    /\ \A k \in 1..Len(attempts[id].questions) :
         Canonical(attempts[id].questions[k])

-----------------------------------------------------------------------------
(* Properties of createAttempt, the normaliser and listAttempts *)

\* C17: createAttempt rejects an empty question sequence, so no stored
\* attempt has total = 0.
C17_NonEmpty ==
  /\ \A id \in 1..Len(attempts) :
       attempts[id].total > 0 /\ attempts[id].questions # <<>>
  /\ (last.op = "create" /\ last.error = "none") =>
       attempts[last.attemptId].questions # <<>>

\* C19: the normaliser fails only on a text that is not parseable as an
\* array: a provider call that got a JSON array, whatever its elements are,
\* does not throw.
C19_ArraysNormalize == lastErr \in FailKinds \cup {"none"}

Owned(user) == {k \in 1..Len(attempts) : attempts[k].userId = user}

\* C20: listAttempts returns only attempts of the caller, at most 10, newest
\* first, and they are the caller's most recently created ones; a caller who
\* is not signed in gets none.
C20_Listing ==
  last.op = "list" =>
    LET got == last.ret[1]
    IN /\ last.error = "none"
       /\ \A i \in 1..Len(got) : got[i] \in Owned(last.user)
       /\ Len(got) = Min(Cardinality(Owned(last.user)), 10)
       /\ \A i \in 1..Len(got), j \in 1..Len(got) : i < j => got[i] > got[j]
       /\ \A k \in Owned(last.user) :
            (\A i \in 1..Len(got) : got[i] # k) =>
              \A i \in 1..Len(got) : k < got[i]
       /\ last.user = NoUser => got = <<>>

\* a user with more than 10 attempts, among them attempts of another user,
\* got the 10 newest and not the oldest
C20_Witness ==
  /\ last.op = "list"
  /\ Cardinality(Owned(last.user)) > 10
  /\ Len(last.ret[1]) = 10
  /\ \E k \in 1..Len(attempts) :
       /\ attempts[k].userId \in Users \ {last.user}
       /\ k > last.ret[1][10]
  /\ \E k \in Owned(last.user) : k < last.ret[1][10]

====
